---- MODULE Spec2Model ----
(***************************************************************************)
(* Model of research/differential_privacy/multiple_teachers/               *)
(* netflix_aggregation.py: the two vote aggregators noisy_max and          *)
(* aggregation_most_frequent, run by a caller that holds one prediction    *)
(* tensor and calls them repeatedly, sharing numpy's process-wide random   *)
(* generator.                                                              *)
(*                                                                         *)
(* Arrays are functions over 0-based indices, as in the source.            *)
(* Floating point values are represented by integers counting eighths:     *)
(* the float v is the integer 8*v.  A float64 holds every eighth; a        *)
(* float32 holds only the multiples of one half (of 4 eighths), so that    *)
(* storing into a float32 array rounds, to nearest, ties to even.  Vote    *)
(* counts are whole numbers and are stored exactly in either width.        *)
(***************************************************************************)
EXTENDS Integers, Sequences, FiniteSets

VARIABLES
  predictions,         \* the caller's tensor: [shape |-> <<T,N,S>>, data |-> ...]
  rng,                 \* state of np.random's global generator
  lastMF,              \* what the previous aggregation_most_frequent call returned
  op,                  \* the function being executed
  lap_scale,           \* argument of noisy_max
  return_clean_votes,  \* argument of noisy_max
  pc,                  \* position in the function
  i, j, item,          \* the loop variables
  label_counts,        \* local array of the current sample
  result,              \* local array of labels
  clean_votes,         \* local array of clean votes
  draws,               \* log of the np.random.laplace calls of this call
  returned             \* the value handed back to the caller

vars == <<predictions, rng, lastMF, op, lap_scale, return_clean_votes, pc,
          i, j, item, label_counts, result, clean_votes, draws, returned>>

----------------------------------------------------------------------------
(* Bounds of the model *)

\* Largest tensor explored: Max(T,1) * Max(N,1) * Max(S,1) <= MaxSize.
MaxSize == 2

\* Labels a tensor may hold: the classes 1..5, the reserved 0, and one
\* value on each side of the range [0, 5].
Labels == -1 .. 6

\* Values of lap_scale tried: negative, zero and positive.
LapScales == {-1, 0, 1}

\* The standard Laplace variates the generator yields, in eighths, as a
\* cycle; the generator state is the position in the cycle.  It holds
\* draws of one or two eighths (absorbed by a float32 that holds a whole
\* number), draws below one half of a vote, and draws above it.
NoiseStream == <<3, -3, 1, 0, -1, 6, -6, 2>>

\* the value of a name that is not bound to an array
None == [u \in {"unbound"} |-> TRUE]

\* no function is being executed
NoCall == "none"

----------------------------------------------------------------------------
(* Tensors *)

AtLeast1(x) == IF x < 1 THEN 1 ELSE x

Shapes ==
  { sh \in (0..MaxSize) \X (0..MaxSize) \X (0..MaxSize) :
      AtLeast1(sh[1]) * AtLeast1(sh[2]) * AtLeast1(sh[3]) <= MaxSize }

Cells(sh) == (0..(sh[1]-1)) \X (0..(sh[2]-1)) \X (0..(sh[3]-1))

Tensors ==
  UNION { [shape : {sh}, data : [Cells(sh) -> Labels]] : sh \in Shapes }

\* np.shape(predictions)
Shape(p) == p.shape

\* np.zeros(dims): an array of 0.0 over a grid of the given dimensions
Zeros2(n, s) == [c \in (0..(n-1)) \X (0..(s-1)) |-> 0]

Zeros3(k, n, s) == [c \in (0..(k-1)) \X (0..(n-1)) \X (0..(s-1)) |-> 0]

\* (mutant) the column of the first sample of the row: predictions[:,i,0]
ColumnOfRow(p, n, s) == [t \in 1..p.shape[1] |-> p.data[<<t-1, n, 0>>]]

\* predictions[:,i,j]: the teachers' labels of one sample, in teacher order
Column(p, n, s) == [t \in 1..p.shape[1] |-> p.data[<<t-1, n, s>>]]

----------------------------------------------------------------------------
(* numpy *)

RECURSIVE SeqMax(_)
SeqMax(x) ==
  IF Len(x) = 0 THEN -1
  ELSE LET m == SeqMax(Tail(x)) IN IF Head(x) > m THEN Head(x) ELSE m

RECURSIVE Tally(_, _)
\* one pass over the input, adding one to the bin of each element
Tally(x, bins) ==
  IF Len(x) = 0 THEN bins
  ELSE Tally(Tail(x), [bins EXCEPT ![Head(x)] = @ + 1])

\* np.bincount(x, minlength) of a one-dimensional array without negative
\* elements: an array of length max(max(x)+1, minlength)
Bincount(x, minlength) ==
  LET len == IF SeqMax(x) + 1 > minlength THEN SeqMax(x) + 1 ELSE minlength
  IN  Tally(x, [k \in 0..(len-1) |-> 0])

\* np.bincount raises ValueError on a negative element
BincountRaises(x) == \E t \in DOMAIN x : x[t] < 0

\* a[lo:hi] of a one-dimensional array
Slice(a, lo, hi) ==
  LET len == Cardinality(DOMAIN a)
      top == IF hi < len THEN hi ELSE len
  IN  [k \in 0..(top-lo-1) |-> a[lo + k]]

\* (mutant) the last index of the maximum
ArgmaxLast(a) ==
  CHOOSE k \in DOMAIN a :
    /\ \A l \in DOMAIN a : a[l] <= a[k]
    /\ \A l \in DOMAIN a : l > k => a[l] < a[k]

\* np.argmax of a one-dimensional array: the first index of the maximum
Argmax(a) ==
  CHOOSE k \in DOMAIN a :
    /\ \A l \in DOMAIN a : a[l] <= a[k]
    /\ \A l \in DOMAIN a : l < k => a[l] < a[k]

\* conversion of an integer to np.int32: the value wraps above 2^31 - 1
AsInt32(x) == IF x > 2147483647 THEN x - 2147483647 - 2147483647 - 2 ELSE x

\* conversion of a float to np.int32: the fraction is dropped, toward zero
FloatToInt32(e) == IF e >= 0 THEN AsInt32(e \div 8) ELSE 0 - AsInt32((0 - e) \div 8)

\* conversion of an integer count to floating point
AsFloat(x) == 8 * x

\* the value a float32 holds after a float e is stored into it
Float32(e) ==
  LET r == e % 4
      lo == e - r
  IN  IF r < 2 THEN lo
      ELSE IF r > 2 THEN lo + 4
      ELSE IF (lo \div 4) % 2 = 0 THEN lo ELSE lo + 4

\* np.random.laplace(loc=0.0, scale): the variate the generator state
\* yields, scaled
Laplace(g, scale) == scale * NoiseStream[g]

\* the generator state after a draw
Advance(g) == (g % Len(NoiseStream)) + 1

\* np.random.laplace rejects a negative scale; numpy before 1.12 rejects a
\* zero scale as well, later versions accept it
LaplaceRaises(scale, legacy) == scale < 0 \/ (legacy /\ scale = 0)

----------------------------------------------------------------------------
(* The caller *)

Init ==
  /\ predictions \in Tensors
  /\ rng \in 1..Len(NoiseStream)
  /\ lastMF = None
  /\ op = NoCall
  /\ lap_scale = 0
  /\ return_clean_votes = FALSE
  /\ pc = "idle"
  /\ i = 0 /\ j = 0 /\ item = 0
  /\ label_counts = None
  /\ result = None
  /\ clean_votes = None
  /\ draws = <<>>
  /\ returned = None

\* noisy_max(predictions, lap_scale, return_clean_votes) is called
CallNoisyMax ==
  /\ pc = "idle"
  /\ \E ls \in LapScales, rcv \in BOOLEAN :
       /\ lap_scale' = ls
       /\ return_clean_votes' = rcv
  /\ op' = "noisy_max"
  /\ pc' = "alloc"
  /\ UNCHANGED <<predictions, rng, lastMF, i, j, item, label_counts, result,
                 clean_votes, draws, returned>>

\* aggregation_most_frequent(predictions) is called
CallMostFrequent ==
  /\ pc = "idle"
  /\ op' = "aggregation_most_frequent"
  /\ pc' = "alloc"
  /\ UNCHANGED <<predictions, rng, lastMF, lap_scale, return_clean_votes,
                 i, j, item, label_counts, result, clean_votes, draws, returned>>

----------------------------------------------------------------------------
(* The two functions *)

\* the first sample of the scan, or the end of it when the grid is empty
FirstPc(sh) == IF sh[2] > 0 /\ sh[3] > 0 THEN "count" ELSE "return"

\* lines 62-67 and 113-114: the arrays of the call are allocated
Alloc ==
  /\ pc = "alloc"
  /\ LET sh == Shape(predictions) IN
       /\ result' = Zeros2(sh[2], sh[3])
       /\ clean_votes' = IF op = "noisy_max" /\ return_clean_votes
                         THEN Zeros3(5, sh[2], sh[3]) ELSE None
       /\ pc' = FirstPc(sh)
  /\ i' = 0 /\ j' = 0
  /\ UNCHANGED <<predictions, rng, lastMF, op, lap_scale, return_clean_votes,
                 item, label_counts, draws, returned>>

\* (mutant) the slice [1:5], which loses class 5
CountVotesShort(p, n, s) == Slice(Bincount(Column(p, n, s), 6), 1, 5)

\* label_counts of line 75 and of line 120
CountVotes(p, n, s) == Slice(Bincount(Column(p, n, s), 6), 1, 6)

\* (mutant) clean_votes[:,:,j] = label_counts, written to every row
StoreColumnAllRows(cv, n, s, counts) ==
  [c \in DOMAIN cv |->
     IF c[3] = s /\ c[1] \in DOMAIN counts
     THEN AsFloat(counts[c[1]]) ELSE cv[c]]

\* clean_votes[:,i,j] = label_counts
StoreColumn(cv, n, s, counts) ==
  [c \in DOMAIN cv |->
     IF c[2] = n /\ c[3] = s /\ c[1] \in DOMAIN counts
     THEN AsFloat(counts[c[1]]) ELSE cv[c]]

\* lines 81 and 122: the cast of the counts
CastCounts(f, counts) ==
  IF f = "noisy_max"
  THEN [k \in DOMAIN counts |-> Float32(AsFloat(counts[k]))]
  ELSE [k \in DOMAIN counts |-> AsInt32(counts[k])]

\* lines 75-81 and 120-122: the votes of sample (i,j) are counted
Count ==
  /\ pc = "count"
  /\ IF BincountRaises(Column(predictions, i, j))
     THEN /\ pc' = "raised"
          /\ UNCHANGED <<label_counts, clean_votes, item>>
     ELSE LET counts == CountVotes(predictions, i, j) IN
          /\ clean_votes' = IF op = "noisy_max" /\ return_clean_votes
                            THEN StoreColumn(clean_votes, i, j, counts)
                            ELSE clean_votes
          /\ label_counts' = CastCounts(op, counts)
          /\ item' = 0
          /\ pc' = IF op = "noisy_max" THEN "draw" ELSE "select"
  /\ UNCHANGED <<predictions, rng, lastMF, op, lap_scale, return_clean_votes,
                 i, j, result, draws, returned>>

\* (mutant) one draw added to the count of every class
AddNoiseShared(lc, k, x) == [c \in DOMAIN lc |-> Float32(lc[c] + x)]

\* (mutant) label_counts[item] = x, the count overwritten
AddNoiseOverwrite(lc, k, x) == [lc EXCEPT ![k] = Float32(x)]

\* label_counts[item] += x, in a float32 array
AddNoise(lc, k, x) == [lc EXCEPT ![k] = Float32(@ + x)]

\* lines 84-85: one Laplace draw is added to the count of class item+1
Draw ==
  /\ pc = "draw"
  /\ \E legacy \in BOOLEAN :
       IF LaplaceRaises(lap_scale, legacy)
       THEN /\ pc' = "raised"
            /\ UNCHANGED <<rng, label_counts, item, draws>>
       ELSE LET x == Laplace(rng, lap_scale) IN
            /\ label_counts' = AddNoise(label_counts, item, x)
            /\ rng' = Advance(rng)
            /\ draws' = Append(draws, [c |-> item, n |-> i, s |-> j, x |-> x])
            /\ item' = item + 1
            /\ pc' = IF item + 1 < 5 THEN "draw" ELSE "select"
  /\ UNCHANGED <<predictions, lastMF, op, lap_scale, return_clean_votes,
                 i, j, result, clean_votes, returned>>

\* (mutant) the class index stored without the + 1
SelectLabelZeroBased(lc) == AsFloat(Argmax(lc))

\* (mutant) ties between classes broken by the random generator
SelectLabelRandomTie(lc) ==
  AsFloat((IF rng % 2 = 0 THEN Argmax(lc) ELSE ArgmaxLast(lc)) + 1)

\* lines 88 and 125: the label stored, in the float array result
SelectLabel(lc) == AsFloat(Argmax(lc) + 1)

\* lines 88 and 125, and the step of the loops of lines 70/74 and 117/119
Select ==
  /\ pc = "select"
  /\ result' = [result EXCEPT ![<<i, j>>] = SelectLabel(label_counts)]
  /\ LET sh == Shape(predictions) IN
       IF j + 1 < sh[3] THEN /\ j' = j + 1 /\ i' = i /\ pc' = "count"
       ELSE IF i + 1 < sh[2] THEN /\ j' = 0 /\ i' = i + 1 /\ pc' = "count"
       ELSE /\ pc' = "return" /\ UNCHANGED <<i, j>>
  /\ UNCHANGED <<predictions, rng, lastMF, op, lap_scale, return_clean_votes,
                 item, label_counts, clean_votes, draws, returned>>

\* lines 91-100 and 127: what the call returns
ReturnValue(f, rcv, res, cv) ==
  [labels |-> [c \in DOMAIN res |-> FloatToInt32(res[c])],
   clean  |-> IF f = "noisy_max" /\ rcv THEN cv ELSE None]

\* lines 91-100 and 127
Return ==
  /\ pc = "return"
  /\ returned' = ReturnValue(op, return_clean_votes, result, clean_votes)
  /\ pc' = "returned"
  /\ UNCHANGED <<predictions, rng, lastMF, op, lap_scale, return_clean_votes,
                 i, j, item, label_counts, result, clean_votes, draws>>

\* The caller takes the returned value, or the exception, and the locals of
\* the call are gone.
Resume ==
  /\ pc \in {"returned", "raised"}
  /\ lastMF' = IF pc = "returned" /\ op = "aggregation_most_frequent"
               THEN returned.labels ELSE lastMF
  /\ pc' = "idle"
  /\ op' = NoCall
  /\ lap_scale' = 0
  /\ return_clean_votes' = FALSE
  /\ i' = 0 /\ j' = 0 /\ item' = 0
  /\ label_counts' = None
  /\ result' = None
  /\ clean_votes' = None
  /\ draws' = <<>>
  /\ returned' = None
  /\ UNCHANGED <<predictions, rng>>

Next ==
  \/ CallNoisyMax
  \/ CallMostFrequent
  \/ Alloc
  \/ Count
  \/ Draw
  \/ Select
  \/ Return
  \/ Resume

Spec == Init /\ [][Next]_vars

----------------------------------------------------------------------------
(* Vocabulary of the properties, stated on the tensor itself *)

NumTeachers == predictions.shape[1]

Samples == (0..(predictions.shape[2]-1)) \X (0..(predictions.shape[3]-1))

Classes == 1..5

\* number of teachers t with predictions[t,n,s] = c
Votes(c, n, s) ==
  Cardinality({t \in 0..(NumTeachers-1) : predictions.data[<<t, n, s>>] = c})

\* the smallest class whose vote count is maximal
Plurality(n, s) ==
  CHOOSE c \in Classes :
    /\ \A d \in Classes : Votes(d, n, s) <= Votes(c, n, s)
    /\ \A d \in Classes : d < c => Votes(d, n, s) < Votes(c, n, s)

\* every label of the tensor is one of the classes 1..5
AllLabelsAreClasses == \A c \in DOMAIN predictions.data : predictions.data[c] \in Classes

\* every label of the tensor lies in [0, 5]
AllLabelsInRange == \A c \in DOMAIN predictions.data : predictions.data[c] \in 0..5

RECURSIVE SumOver(_, _)
SumOver(f, D) ==
  IF D = {} THEN 0
  ELSE LET k == CHOOSE k \in D : TRUE IN f[k] + SumOver(f, D \ {k})

Abs(x) == IF x < 0 THEN 0 - x ELSE x

MostFrequentReturned == pc = "returned" /\ op = "aggregation_most_frequent"

NoisyMaxReturned == pc = "returned" /\ op = "noisy_max"

\* the logged draws made for class index c of sample (n,s)
DrawsFor(c, n, s) ==
  {k \in 1..Len(draws) : draws[k].c = c /\ draws[k].n = n /\ draws[k].s = s}

\* the noise logged for class index c of sample (n,s), once it is drawn
NoiseOf(c, n, s) == draws[CHOOSE k \in DrawsFor(c, n, s) : TRUE].x

\* the float32 that holds the noisy count of class c of sample (n,s)
Stored(c, n, s) == Float32(8 * Votes(c, n, s) + NoiseOf(c - 1, n, s))

\* by how many votes the plurality class leads every other class
Gap(n, s) ==
  LET top == Plurality(n, s)
      rest == {Votes(d, n, s) : d \in Classes \ {top}}
  IN  Votes(top, n, s) - (CHOOSE m \in rest : \A r \in rest : r <= m)

\* every draw of the sample is smaller than half of the gap
SmallNoise(n, s) ==
  /\ Gap(n, s) > 0
  /\ \A c \in 0..4 : 2 * Abs(NoiseOf(c, n, s)) < 8 * Gap(n, s)

ZeroNoise(n, s) == \A c \in 0..4 : NoiseOf(c, n, s) = 0

----------------------------------------------------------------------------
(* C1 *)

\* C1: on a tensor whose labels are all in 1..5, aggregation_most_frequent
\* returns for every sample the smallest class whose vote count is maximal.
C1_PluralityLowestTie ==
  (MostFrequentReturned /\ AllLabelsAreClasses) =>
    \A c \in Samples : returned.labels[c] = Plurality(c[1], c[2])

\* a returned call with a sample on which two classes tie for the most votes
C1_Witness ==
  /\ MostFrequentReturned /\ AllLabelsAreClasses /\ NumTeachers >= 2
  /\ \E c \in Samples : \E d \in Classes :
       /\ d > Plurality(c[1], c[2])
       /\ Votes(d, c[1], c[2]) = Votes(Plurality(c[1], c[2]), c[1], c[2])
       /\ returned.labels[c] = Plurality(c[1], c[2])

----------------------------------------------------------------------------
(* C2 *)

\* C2: the clean votes noisy_max returns are the exact vote counts of the
\* tensor for every class and sample, whatever noise was drawn.
C2_CleanVotesExact ==
  (NoisyMaxReturned /\ return_clean_votes) =>
    /\ DOMAIN returned.clean = (0..4) \X (0..(predictions.shape[2]-1))
                                     \X (0..(predictions.shape[3]-1))
    /\ \A c \in DOMAIN returned.clean :
         returned.clean[c] = 8 * Votes(c[1] + 1, c[2], c[3])

\* clean votes returned after nonzero noise was added to counts that differ
\* between two samples
C2_Witness ==
  /\ NoisyMaxReturned /\ return_clean_votes
  /\ \E k \in 1..Len(draws) : draws[k].x # 0
  /\ \E a, b \in Samples : \E c \in Classes :
       Votes(c, a[1], a[2]) # Votes(c, b[1], b[2])

----------------------------------------------------------------------------
(* C3 *)

\* C3: on a tensor whose labels are all in 1..5, the counts computed for a
\* sample sum to the number of teachers, in label_counts of either function
\* and in the clean votes noisy_max returns.
C3_VoteConservation ==
  AllLabelsAreClasses =>
    /\ (pc = "select" /\ op = "aggregation_most_frequent") =>
         SumOver(label_counts, DOMAIN label_counts) = NumTeachers
    /\ (pc = "draw" /\ item = 0) =>
         SumOver(label_counts, DOMAIN label_counts) = 8 * NumTeachers
    /\ (NoisyMaxReturned /\ return_clean_votes) =>
         \A c \in Samples :
           SumOver([k \in 0..4 |-> returned.clean[<<k, c[1], c[2]>>]], 0..4)
             = 8 * NumTeachers

\* the votes of two teachers counted, for two classes, one of them class 5
C3_Witness ==
  /\ AllLabelsAreClasses /\ NumTeachers = 2
  /\ pc = "select" /\ op = "aggregation_most_frequent"
  /\ label_counts[4] = 1
  /\ \E k \in 0..3 : label_counts[k] = 1

----------------------------------------------------------------------------
(* C4 *)

\* C4: no call returns labels for a tensor without teachers or with a
\* label outside [0, 5].
C4_InvalidInputRejected ==
  pc = "returned" => (NumTeachers > 0 /\ AllLabelsInRange)

----------------------------------------------------------------------------
(* C5 *)

\* C5: noisy_max with lap_scale <= 0 allocates no array, draws no noise
\* and returns nothing.
C5_BadScaleRejectedFirst ==
  (op = "noisy_max" /\ lap_scale <= 0) =>
    /\ result = None /\ clean_votes = None
    /\ draws = <<>>
    /\ pc # "returned"

----------------------------------------------------------------------------
(* C6 *)

\* C6: the labels either function returns have one entry per sample of the
\* N x S grid, each an integer in 1..5.
C6_LabelShapeAndRange ==
  pc = "returned" =>
    /\ DOMAIN returned.labels = Samples
    /\ \A c \in Samples : returned.labels[c] \in Classes

\* noisy_max returned after nonzero noise, with a sample for which every
\* teacher voted class 0
C6_Witness ==
  /\ NoisyMaxReturned /\ NumTeachers >= 1
  /\ \E k \in 1..Len(draws) : draws[k].x # 0
  /\ \E c \in Samples :
       \A t \in 0..(NumTeachers-1) : predictions.data[<<t, c[1], c[2]>>] = 0

----------------------------------------------------------------------------
(* C7 *)

\* C7: aggregation_most_frequent returns what its previous call on the
\* tensor returned, whatever happened to the random generator in between,
\* and no step of it changes the state of the generator.
C7_MostFrequentDeterministic ==
  [][ /\ op = "aggregation_most_frequent" => rng' = rng
      /\ (pc' = "returned" /\ op' = "aggregation_most_frequent"
            /\ lastMF' # None) => returned'.labels = lastMF'
    ]_vars

\* a later call returns on a tensor of two teachers who disagree on a
\* sample
C7_Witness ==
  /\ MostFrequentReturned /\ lastMF # None /\ NumTeachers = 2
  /\ \E c \in Samples : \E d \in Classes :
       /\ d # Plurality(c[1], c[2])
       /\ Votes(d, c[1], c[2]) = Votes(Plurality(c[1], c[2]), c[1], c[2])
       /\ Votes(d, c[1], c[2]) = 1

----------------------------------------------------------------------------
(* C8 *)

\* C8: a noisy_max call that returns has made 5*N*S draws, exactly one for
\* each class of each sample, and the count of a class holds its own count
\* plus its own draw.
C8_OneDrawPerClassAndSample ==
  /\ NoisyMaxReturned =>
       /\ Len(draws) = 5 * predictions.shape[2] * predictions.shape[3]
       /\ \A c \in Samples : \A k \in 0..4 :
            Cardinality(DrawsFor(k, c[1], c[2])) = 1
  /\ (pc = "select" /\ op = "noisy_max") =>
       \A k \in 0..4 :
         /\ Cardinality(DrawsFor(k, i, j)) = 1
         /\ label_counts[k] = Stored(k + 1, i, j)

\* noisy_max returned on two samples after ten draws, not all equal
C8_Witness ==
  /\ NoisyMaxReturned /\ Cardinality(Samples) = 2 /\ Len(draws) = 10
  /\ \E k \in 1..Len(draws) : draws[k].x # draws[1].x

----------------------------------------------------------------------------
(* C9 *)

\* C9 as stated: on a sample whose draws are all smaller than half of the
\* gap of its plurality class, and on a sample whose draws are all 0,
\* noisy_max returns the label aggregation_most_frequent returned.
C9_SmallNoiseSameLabel ==
  (NoisyMaxReturned /\ lastMF # None) =>
    \A c \in Samples :
      (SmallNoise(c[1], c[2]) \/ ZeroNoise(c[1], c[2])) =>
        returned.labels[c] = lastMF[c]

\* C9 amended: on a sample whose draws are all smaller than half of the gap,
\* noisy_max returns the label of aggregation_most_frequent or a lower class
\* whose float32 noisy count equals that of the plurality class; on a sample
\* whose draws are all 0 it returns the label of aggregation_most_frequent.
C9_SmallNoiseSameLabelUpToRounding ==
  (NoisyMaxReturned /\ lastMF # None) =>
    \A c \in Samples :
      /\ SmallNoise(c[1], c[2]) =>
           /\ returned.labels[c] <= lastMF[c]
           /\ Stored(returned.labels[c], c[1], c[2]) = Stored(lastMF[c], c[1], c[2])
      /\ ZeroNoise(c[1], c[2]) => returned.labels[c] = lastMF[c]

\* noisy_max returned the label of aggregation_most_frequent, a class
\* above 1, on a sample whose draws are not all 0 and all below half of
\* the gap
C9_Witness ==
  /\ NoisyMaxReturned /\ lastMF # None /\ lap_scale > 0
  /\ \E c \in Samples :
       /\ SmallNoise(c[1], c[2])
       /\ \E k \in 0..4 : NoiseOf(k, c[1], c[2]) # 0
       /\ Plurality(c[1], c[2]) > 1
       /\ returned.labels[c] = lastMF[c]

----------------------------------------------------------------------------
(* C10 *)

\* the label a function computes from one column of labels and five draws
ColumnLabel(f, col, xs) ==
  LET v(c) == Cardinality({t \in DOMAIN col : col[t] = c})
      w(c) == IF f = "noisy_max" THEN Float32(8 * v(c) + xs[c]) ELSE v(c)
  IN  CHOOSE c \in Classes :
        /\ \A d \in Classes : w(d) <= w(c)
        /\ \A d \in Classes : d < c => w(d) < w(c)

\* the draws a sample receives from the draw sequence of the call, which
\* ends at the present state of the generator
OwnDraws(n, s) ==
  LET len == Len(NoiseStream)
      first == 5 * (n * predictions.shape[3] + s)
      pos(k) == ((rng - 1 + len * Len(draws) - Len(draws) + first + k) % len) + 1
  IN  [c \in Classes |-> lap_scale * NoiseStream[pos(c - 1)]]

\* C10: the label and the clean votes returned for a sample are those
\* computed from the column of the sample and from its own five draws of
\* the draw sequence alone, and no step changes the tensor.
C10_PerSampleIndependence ==
  [][ /\ predictions' = predictions
      /\ pc' = "returned" =>
           \A c \in Samples :
             LET col == [t \in 0..(NumTeachers-1) |-> predictions.data[<<t, c[1], c[2]>>]]
             IN  /\ returned'.labels[c] = ColumnLabel(op', col, OwnDraws(c[1], c[2])')
                 /\ returned'.clean # None =>
                      \A k \in 0..4 :
                        returned'.clean[<<k, c[1], c[2]>>]
                          = 8 * Cardinality({t \in DOMAIN col : col[t] = k + 1})
    ]_vars

\* noisy_max returned on two samples with different columns and nonzero
\* noise
C10_Witness ==
  /\ NoisyMaxReturned /\ lap_scale > 0 /\ NumTeachers >= 1
  /\ \E a, b \in Samples : \E t \in 0..(NumTeachers-1) :
       predictions.data[<<t, a[1], a[2]>>] # predictions.data[<<t, b[1], b[2]>>]

====
